---- MODULE Spec2Model ----
(***************************************************************************)
(* Model of the match simulator of blitzball-arena                         *)
(* (src/src/components/Game.tsx): the React component state, the world     *)
(* held in gameStateRef, the animation-frame tick updateGame, the          *)
(* one-second timer, the key handlers and resetGame.                       *)
(*                                                                         *)
(* Numbers.  The program computes in IEEE doubles.  The model computes in  *)
(* fixed point: every length and velocity is an integer count of 1/Scale   *)
(* pixel, and every product or quotient is rounded towards zero to a whole *)
(* unit (RoundDiv), so that a velocity multiplied by a friction factor     *)
(* below 1 shrinks at every magnitude, as it does in doubles.              *)
(* Math.cos(Math.atan2(dy, dx)) is dx/dist and Math.sin of it dy/dist      *)
(* (1 and 0 when dx = dy = 0).                                             *)
(*                                                                         *)
(* React.  A handler's state updates are committed, and the effect of      *)
(* lines 221-603 is torn down and run again when one of its dependencies   *)
(* [gameOver, powerUps, isCharging, kickPower, isPaused] changed; each     *)
(* action below is a callback together with that commit, and the closure   *)
(* a callback reads is then the committed state.  The updates of a key or  *)
(* button event are committed before the event returns.  Those of a frame  *)
(* callback are committed by a later task, which the next frame can        *)
(* overtake: StaleTick is that frame, run by the registration that is      *)
(* still in place, with the values its closure captured.                   *)
(***************************************************************************)
EXTENDS Integers, Sequences, FiniteSets, TLC

\* ------------------------------------------------------------------ bounds

\* Resolution of the fixed-point numbers: units per pixel.
Scale == 16

\* Wall-clock time (ms) of the first state, and the last instant explored.
StartNow == 10000
MaxNow == 12000

\* Milliseconds between two animation frames.
FrameMs == 500

\* Inputs explored in one behaviour: key events, pause toggles, resets and
\* power-up spawns.
MaxInputs == 2

\* --------------------------------------------------------------- constants

CANVAS_WIDTH == 800
CANVAS_HEIGHT == 600
PLAYER_RADIUS == 20
BALL_RADIUS == 12
BASE_PLAYER_SPEED == 5
AI_SPEED == 4
MAX_KICK_POWER == 20
POWER_UP_DURATION == 5000
MatchSeconds == 180
TimerMs == 1000
MinKick == 10
AiKick == 12
PickupRadius == 10

Px(n) == n * Scale

W == Px(CANVAS_WIDTH)
H == Px(CANVAS_HEIGHT)
BallR == Px(BALL_RADIUS)
AiR == Px(PLAYER_RADIUS)
BaseRadius == Px(PLAYER_RADIUS)
\* BASE_PLAYER_SPEED * SPRINT_MULTIPLIER = 5 * 1.5
BaseMaxSpeed == (Px(BASE_PLAYER_SPEED) * 3) \div 2
PlayerSpeed == Px(BASE_PLAYER_SPEED)
AiSpeedU == Px(AI_SPEED)
MaxKick == Px(MAX_KICK_POWER)
\* KICK_CHARGE_RATE = 0.5
ChargeRate == Scale \div 2

\* -------------------------------------------------------------- arithmetic

Abs(a) == IF a < 0 THEN -a ELSE a
Min(a, b) == IF a < b THEN a ELSE b
Max(a, b) == IF a > b THEN a ELSE b
Sq(a) == a * a

\* a / b rounded towards zero to a whole unit (b > 0).
RoundDiv(a, b) == IF a >= 0 THEN a \div b ELSE -((-a) \div b)

\* v * (n / d), one rounded multiplication by a decimal literal.
Mul(v, n, d) == RoundDiv(v * n, d)

RECURSIVE SqrtSearch(_, _, _)
SqrtSearch(n, lo, hi) ==
    IF lo >= hi THEN lo
    ELSE LET mid == (lo + hi + 1) \div 2
         IN  IF mid * mid <= n THEN SqrtSearch(n, mid, hi)
             ELSE SqrtSearch(n, lo, mid - 1)

\* Math.sqrt, rounded to the nearest unit.
Sqrt(n) ==
    LET r == SqrtSearch(n, 0, 46340)
    IN  IF n - r * r > r THEN r + 1 ELSE r

Dist(dx, dy) == Sqrt(Sq(dx) + Sq(dy))

\* (Math.cos(angle) * m, Math.sin(angle) * m) for angle = Math.atan2(dy, dx).
Along(dx, dy, m) ==
    LET d == Dist(dx, dy)
    IN  IF dx = 0 /\ dy = 0 THEN <<m, 0>>
        ELSE <<RoundDiv(dx * m, d), RoundDiv(dy * m, d)>>

Clamp(lo, hi, v) == Max(lo, Min(hi, v))

\* ------------------------------------------------------------------- state

VARIABLES
    score,       \* useState score: [player, ai]
    timeLeft,    \* useState timeLeft, seconds
    gameOver,    \* useState gameOver
    powerUps,    \* useState powerUps: sequence of PowerUp records
    kickPower,   \* useState kickPower, in units
    isCharging,  \* useState isCharging
    isPaused,    \* useState isPaused
    player,      \* gameStateRef.current.player
    ai,          \* gameStateRef.current.ai
    ball,        \* gameStateRef.current.ball
    keys,        \* gameStateRef.current.keys
    now,         \* Date.now(), ms
    rafPending,  \* an animation frame request of the live effect is pending
    timer,       \* the setInterval of the live effect: [live, due]
    sig,         \* what the last callback did: its sounds and branches taken
    run,         \* ms the match has run unpaused since it last (re)started,
                 \* and timeLeft at that moment (observer)
    applied,     \* time of the last application of each power-up type (observer)
    hold,        \* progress of a press-and-hold that began at rest in contact
                 \* with a resting ball (observer)
    used,        \* number of inputs consumed so far
    stale,       \* what the closure of the last frame captured, while the
                 \* commit of that frame's updates can still be overtaken
    reg,         \* what is registered: key listeners, pending frame requests,
                 \* live intervals, and whether the component is mounted
    idle         \* ms the match has spent paused so far, and what that was at
                 \* each instant a power-up was picked up (observer)

vars == <<score, timeLeft, gameOver, powerUps, kickPower, isCharging, isPaused,
          player, ai, ball, keys, now, rafPending, timer, sig, run, applied,
          hold, used, stale, reg, idle>>

world == <<score, player, ai, ball, powerUps>>

NoStart == 0
Types == {"speed", "sticky", "giant"}
KeyNames == {"ArrowUp", "ArrowDown", "ArrowLeft", "ArrowRight", " ", "Shift"}

NoKeys == [up |-> FALSE, down |-> FALSE, left |-> FALSE, right |-> FALSE,
           space |-> FALSE, shift |-> FALSE]

\* gameStateRef's initial player, ai and ball (lines 145-178).
InitPlayer == [x |-> W \div 4, y |-> H \div 2, vx |-> 0, vy |-> 0,
               radius |-> BaseRadius, maxSpeed |-> BaseMaxSpeed, direction |-> 1]
InitAi == [x |-> (W \div 4) * 3, y |-> H \div 2, vx |-> 0, vy |-> 0,
           direction |-> -1]
InitBall == [x |-> W \div 2, y |-> H \div 2, vx |-> 0, vy |-> 0,
             spin |-> 0, rotation |-> 0]

NoSig == [op |-> "init", simulated |-> FALSE, wallX |-> FALSE, wallY |-> FALSE,
          exitX |-> "none", pKick |-> FALSE, kickV |-> <<0, 0>>,
          dribble |-> FALSE, aiKick |-> FALSE, aiV |-> <<0, 0>>,
          goal |-> "none", picked |-> 0, kickSound |-> FALSE,
          before |-> <<>>, stale |-> FALSE]

\* No frame can overtake a commit.
NoStale == [on |-> FALSE, kickPower |-> 0, powerUps |-> <<>>, fresh |-> 0]

\* ------------------------------------------------- updateGame, step by step

\* Lines 371-375: the charge accumulated by one unpaused tick whose closure
\* captured the kick power seen, applied to the latest kick power prev.
ChargeKick(charging, seen, prev) ==
    IF charging /\ seen < MaxKick THEN Min(prev + ChargeRate, MaxKick)
    ELSE IF ~charging /\ seen > 0 THEN 0
    ELSE prev

\* Lines 379-399: player velocity smoothing, friction, move and clamp.
MovePlayer(p, k) ==
    LET tx == (IF k.left THEN -1 ELSE 0) + (IF k.right THEN 1 ELSE 0)
        ty == (IF k.up THEN -1 ELSE 0) + (IF k.down THEN 1 ELSE 0)
        cs == IF k.shift THEN p.maxSpeed ELSE PlayerSpeed
        diag == tx # 0 /\ ty # 0
        gx == IF diag THEN RoundDiv(tx * cs * 7071, 10000) ELSE tx * cs
        gy == IF diag THEN RoundDiv(ty * cs * 7071, 10000) ELSE ty * cs
        vx1 == p.vx + Mul(gx - p.vx, 1, 2)
        vy1 == p.vy + Mul(gy - p.vy, 1, 2)
        vx2 == IF tx = 0 THEN Mul(vx1, 4, 5) ELSE vx1
        vy2 == IF ty = 0 THEN Mul(vy1, 4, 5) ELSE vy1
    IN  [p EXCEPT !.vx = vx2, !.vy = vy2,
                  !.x = Clamp(p.radius, W - p.radius, p.x + vx2),
                  !.y = Clamp(p.radius, H - p.radius, p.y + vy2)]

\* Lines 401-414: the AI seeks the ball.
MoveAI(a, b) ==
    LET dx == b.x - a.x
        dy == b.y - a.y
        seek == dx # 0 \/ dy # 0
        g == Along(dx, dy, AiSpeedU)
        vx1 == IF seek THEN a.vx + Mul(g[1] - a.vx, 2, 5) ELSE a.vx
        vy1 == IF seek THEN a.vy + Mul(g[2] - a.vy, 2, 5) ELSE a.vy
        dir == IF seek THEN (IF vx1 > 0 THEN 1 ELSE -1) ELSE a.direction
    IN  [x |-> Clamp(AiR, W - AiR, a.x + vx1),
         y |-> Clamp(AiR, H - AiR, a.y + vy1),
         vx |-> vx1, vy |-> vy1, direction |-> dir]

\* Ball integration without friction.
MoveBallNoFriction(b) ==
    [b EXCEPT !.x = b.x + b.vx, !.y = b.y + b.vy,
              !.rotation = b.rotation + b.spin]

\* Lines 416-420: ball integration and friction.
MoveBall(b) ==
    [b EXCEPT !.x = b.x + b.vx, !.y = b.y + b.vy,
              !.vx = Mul(b.vx, 98, 100), !.vy = Mul(b.vy, 98, 100),
              !.rotation = b.rotation + b.spin]

\* Lines 422-426: left/right wall.
HitsWallX(b) == b.x < BallR \/ b.x > W - BallR

\* A reflection that leaves the ball where it is.
ReflectXNoClamp(b) ==
    IF HitsWallX(b) THEN [b EXCEPT !.vx = -Mul(b.vx, 8, 10)] ELSE b

ReflectX(b) ==
    IF HitsWallX(b)
    THEN [b EXCEPT !.vx = -Mul(b.vx, 8, 10),
                   !.x = IF b.x < BallR THEN BallR ELSE W - BallR]
    ELSE b

\* Lines 427-431: top/bottom wall.
HitsWallY(b) == b.y < BallR \/ b.y > H - BallR
ReflectY(b) ==
    IF HitsWallY(b)
    THEN [b EXCEPT !.vy = -Mul(b.vy, 8, 10),
                   !.y = IF b.y < BallR THEN BallR ELSE H - BallR]
    ELSE b

\* Lines 433-438: distance < radius1 + radius2.
checkCollision(o1, r1, o2, r2) ==
    Sq(o1.x - o2.x) + Sq(o1.y - o2.y) < Sq(r1 + r2)

\* Line 443: const power = kickPower || 10.
KickStrength(kp) == IF kp = 0 THEN Px(MinKick) ELSE kp

\* Lines 441-447: the player kicks the ball.
KickBall(p, b, kp) ==
    LET dx == b.x - p.x
        dy == b.y - p.y
        v == Along(dx, dy, KickStrength(kp))
        \* cos(angle + PI/2) = -sin(angle)
        s == Along(dx, dy, p.vx)
    IN  [b EXCEPT !.vx = v[1], !.vy = v[2], !.spin = Mul(-s[2], 1, 10)]

\* Lines 448-456: the ball is pushed out of the overlap and carried.
DribbleBall(p, b) ==
    LET dx == b.x - p.x
        dy == b.y - p.y
        overlap == p.radius + BallR - Dist(dx, dy)
        push == Along(dx, dy, overlap)
    IN  [b EXCEPT !.x = b.x + push[1], !.y = b.y + push[2],
                  !.vx = Mul(b.vx + p.vx, 1, 2), !.vy = Mul(b.vy + p.vy, 1, 2)]

\* Lines 440-457.
PlayerBall(p, b, k, kp) ==
    IF ~checkCollision(p, p.radius, b, BallR) THEN b
    ELSE IF k.space THEN KickBall(p, b, kp)
    ELSE DribbleBall(p, b)

\* An AI kick at the player's fallback power.
AiBallAtMinKick(a, b) ==
    IF checkCollision(a, AiR, b, BallR)
    THEN LET v == Along(b.x - a.x, b.y - a.y, Px(MinKick))
         IN  [b EXCEPT !.vx = v[1], !.vy = v[2]]
    ELSE b

\* Lines 459-464: the AI kicks at constant power.
AiBall(a, b) ==
    IF checkCollision(a, AiR, b, BallR)
    THEN LET v == Along(b.x - a.x, b.y - a.y, Px(AiKick))
         IN  [b EXCEPT !.vx = v[1], !.vy = v[2]]
    ELSE b

\* Lines 466-478: goal detection.
GoalSide(b) == IF b.x < 0 THEN "ai" ELSE IF b.x > W THEN "player" ELSE "none"
GoalBall(b) ==
    IF GoalSide(b) = "none" THEN b
    ELSE [b EXCEPT !.x = W \div 2, !.y = H \div 2, !.vx = 0, !.vy = 0]
GoalScore(sc, side) ==
    IF side = "ai" THEN [sc EXCEPT !.ai = sc.ai + 1]
    ELSE IF side = "player" THEN [sc EXCEPT !.player = sc.player + 1]
    ELSE sc

\* ---------------------------------------------------------------- power-ups

\* Lines 325-337: the effect of a power-up on the player.
ApplyEffect(p, type) ==
    IF type = "speed" THEN [p EXCEPT !.maxSpeed = Mul(p.maxSpeed, 3, 2)]
    ELSE IF type = "giant" THEN [p EXCEPT !.radius = Mul(p.radius, 3, 2)]
    ELSE p

\* Lines 481-485: a pending power-up within reach of the player.
InReach(p, pu) ==
    /\ pu.active
    /\ pu.startTime = NoStart
    /\ Sq(p.x - pu.x) + Sq(p.y - pu.y) < Sq(p.radius + Px(PickupRadius))

\* Lines 480-489 with applyPowerUp (325-340): powerUps.forEach from index i on;
\* a picked power-up is stamped with Date.now() = t.
RECURSIVE Pickup(_, _, _, _)
Pickup(p, pus, i, t) ==
    IF i > Len(pus) THEN [player |-> p, powerUps |-> pus]
    ELSE IF InReach(p, pus[i])
         THEN Pickup(ApplyEffect(p, pus[i].type),
                     [pus EXCEPT ![i].startTime = t], i + 1, t)
         ELSE Pickup(p, pus, i + 1, t)

\* Lines 344-345: an applied power-up whose duration has elapsed at time t.
Expired(pu, t) ==
    pu.active /\ pu.startTime # NoStart /\ t - pu.startTime >= pu.duration

\* An expiry that undoes the multiplication.
RevertEffectDivides(p, type) ==
    IF type = "speed" THEN [p EXCEPT !.maxSpeed = Mul(p.maxSpeed, 2, 3)]
    ELSE IF type = "giant" THEN [p EXCEPT !.radius = Mul(p.radius, 2, 3)]
    ELSE p

\* Lines 346-354: the attribute goes back to its base value.
RevertEffect(p, type) ==
    IF type = "speed" THEN [p EXCEPT !.maxSpeed = BaseMaxSpeed]
    ELSE IF type = "giant" THEN [p EXCEPT !.radius = BaseRadius]
    ELSE p

\* Lines 342-359: updatePowerUps, the filter from index i on.
RECURSIVE updatePowerUps(_, _, _, _)
updatePowerUps(p, pus, i, t) ==
    IF i > Len(pus) THEN [player |-> p, powerUps |-> <<>>]
    ELSE IF Expired(pus[i], t)
         THEN updatePowerUps(RevertEffect(p, pus[i].type), pus, i + 1, t)
         ELSE LET rest == updatePowerUps(p, pus, i + 1, t)
              IN  [rest EXCEPT !.powerUps = <<pus[i]>> \o rest.powerUps]

\* Lines 313-320: a new power-up.
NewPowerUp(x, y, type) ==
    [x |-> x, y |-> y, type |-> type, active |-> TRUE,
     duration |-> POWER_UP_DURATION, startTime |-> NoStart]

\* A position Math.random() can give (lines 315-316), in pixels: the kick-off
\* spot of the player, so that a power-up is picked up at once by a player
\* who stands there and stays pending otherwise.
SpawnSpots == {<<200, 300>>}

\* Line 312: spawnPowerUp may create a power-up when powerUps.length < 2.
CanSpawn(pus) == Len(pus) < 2

\* --------------------------------------------------------- timer and effect

\* The updater with the end of the match tested one second late.
TimerUpdateLate(prev) ==
    IF prev <= 0 THEN [timeLeft |-> 0, over |-> TRUE]
    ELSE [timeLeft |-> prev - 1, over |-> FALSE]

\* Lines 586-593: the updater of setTimeLeft; over = setGameOver(true) was called.
TimerUpdate(prev) ==
    IF prev <= 1 THEN [timeLeft |-> 0, over |-> TRUE]
    ELSE [timeLeft |-> prev - 1, over |-> FALSE]

\* Line 364, 576 or 582: requestAnimationFrame(updateGame).
RequestFrame(r) == [r EXCEPT !.frames = r.frames + 1]

\* The browser runs a requested frame callback.
FrameRuns(r) == [r EXCEPT !.frames = r.frames - 1]

\* Line 589: clearInterval(timer) in the updater.
ClearTimer(r) == [r EXCEPT !.timers = IF r.timers > 0 THEN r.timers - 1 ELSE 0]

\* A cleanup that leaves the requested frame in place.
CleanupKeepsFrame(r) ==
    [ClearTimer(r) EXCEPT !.listeners = r.listeners - 1]

\* Lines 597-602: the cleanup removes the key listeners, cancels the frame
\* request held in animationFrameId and clears the interval.
Cleanup(r) ==
    [ClearTimer(r) EXCEPT !.listeners = r.listeners - 1,
                          !.frames = IF r.frames > 0 THEN r.frames - 1 ELSE 0]

\* Lines 580-595: the effect adds the key listeners, requests a frame and
\* starts the interval.
Register(r) ==
    [RequestFrame(r) EXCEPT !.listeners = r.listeners + 1,
                            !.timers = r.timers + 1]

\* The commit of a changed dependency: cleanup, then the effect again.
Rerun(changed, r) == IF changed THEN Register(Cleanup(r)) ELSE r

\* Lines 584-603: the interval after a commit at time t: the cleanup clears it
\* and the effect sets a new one when a dependency changed.
Rearm(changed, t, cur) ==
    IF changed THEN [live |-> TRUE, due |-> t + TimerMs] ELSE cur

\* The observer of the paused time after a step that took d ms: the match
\* was paused, or not, for all of it (isPaused changes only in a step).
IdleAfter(d) == IF isPaused THEN [idle EXCEPT !.ms = @ + d] ELSE idle

\* The observer of the running time after a step that took d ms.
RunAfter(d, paused2, over2, left2) ==
    IF paused2 # isPaused \/ over2 # gameOver \/ paused2 \/ over2
    THEN [ms |-> 0, start |-> left2]
    ELSE [ms |-> run.ms + d, start |-> run.start]

\* ------------------------------------------------------------------- scenes

\* A quarter pixel, for the scenes below.
Quarter == Scale \div 4

\* The state after construction (lines 134-187).
Kickoff ==
    [score |-> [player |-> 0, ai |-> 0], timeLeft |-> MatchSeconds,
     powerUps |-> <<>>, kickPower |-> 0, isCharging |-> FALSE,
     isPaused |-> TRUE, player |-> InitPlayer, ai |-> InitAi,
     ball |-> InitBall, keys |-> NoKeys]

\* Some 35 ticks after kick-off: the player has run right at the resting ball
\* and pressed the kick button four ticks ago (kickPower 2); the AI closes in.
Approach ==
    [Kickoff EXCEPT
        !.isPaused = FALSE, !.isCharging = TRUE, !.kickPower = Px(2),
        !.keys = [NoKeys EXCEPT !.right = TRUE, !.space = TRUE],
        !.player = [InitPlayer EXCEPT !.x = Px(364), !.vx = PlayerSpeed],
        !.ai = [InitAi EXCEPT !.x = Px(470), !.vx = -AiSpeedU]]

\* The kick button has been held for 39 ticks away from the ball
\* (kickPower 19.5).
Charged ==
    [Kickoff EXCEPT
        !.isPaused = FALSE, !.isCharging = TRUE,
        !.kickPower = MaxKick - ChargeRate,
        !.keys = [NoKeys EXCEPT !.space = TRUE],
        !.ai = [InitAi EXCEPT !.x = Px(450), !.vx = -AiSpeedU]]

\* Player and ball rest 35 px apart; a giant power-up that spawned on the
\* player was picked up 4600 ms ago, so the two now overlap (radius 30).
GiantContact ==
    [Kickoff EXCEPT
        !.isPaused = FALSE,
        !.score = [player |-> 0, ai |-> 1],
        !.powerUps = <<[NewPowerUp(Px(300), Px(200), "giant")
                           EXCEPT !.startTime = StartNow - 4600]>>,
        !.player = [InitPlayer EXCEPT !.x = Px(300), !.y = Px(200),
                                      !.radius = Mul(BaseRadius, 3, 2)],
        !.ball = [InitBall EXCEPT !.x = Px(335), !.y = Px(200)],
        !.ai = [InitAi EXCEPT !.x = Px(500), !.y = Px(400)]]

\* The player has kicked the ball hard at the left wall: it is 3 px from the
\* wall-contact line and moves left at 16 px per tick.  One second remains.
WallShot ==
    [Kickoff EXCEPT
        !.isPaused = FALSE, !.timeLeft = 1,
        !.score = [player |-> 1, ai |-> 0],
        !.player = [InitPlayer EXCEPT !.x = Px(120), !.direction = -1],
        !.ball = [InitBall EXCEPT !.x = Px(15), !.vx = -Px(16)],
        !.ai = [InitAi EXCEPT !.x = Px(300), !.vx = -AiSpeedU]]

\* The player, with a speed power-up applied 4600 ms ago, sprints up along
\* the left wall; the ball, kicked by the AI, comes down along the wall and
\* into it.  The two do not touch yet (32.8 px apart).
WallGoal ==
    [Kickoff EXCEPT
        !.isPaused = FALSE,
        !.score = [player |-> 2, ai |-> 1],
        !.powerUps = <<[NewPowerUp(Px(20), Px(400), "speed")
                           EXCEPT !.startTime = StartNow - 4600]>>,
        !.keys = [NoKeys EXCEPT !.up = TRUE, !.shift = TRUE],
        !.player = [InitPlayer EXCEPT !.x = Px(20), !.y = Px(300),
                                      !.vy = -Mul(BaseMaxSpeed, 3, 2),
                                      !.maxSpeed = Mul(BaseMaxSpeed, 3, 2),
                                      !.direction = -1],
        !.ball = [InitBall EXCEPT !.x = Px(13), !.y = Px(268),
                                  !.vx = -Px(2), !.vy = Px(12) - Quarter],
        !.ai = [InitAi EXCEPT !.x = Px(40), !.y = Px(170),
                              !.vx = -Scale, !.vy = AiSpeedU - Quarter]]

\* The player runs left towards the wall, 20 px from it; a giant power-up
\* lies pending at the wall, just out of reach (34.8 px away, reach 30).
WallRun ==
    [Kickoff EXCEPT
        !.isPaused = FALSE,
        !.powerUps = <<NewPowerUp(Px(20), Px(329), "giant")>>,
        !.keys = [NoKeys EXCEPT !.left = TRUE],
        !.player = [InitPlayer EXCEPT !.x = Px(40), !.vx = -PlayerSpeed,
                                      !.direction = -1],
        !.ai = [InitAi EXCEPT !.vx = -AiSpeedU]]

\* The player has picked up two giant power-ups, 4600 ms and 4100 ms ago
\* (radius 20 * 1.5 * 1.5 = 45), and stands still.
DoubleGiant ==
    [Kickoff EXCEPT
        !.isPaused = FALSE,
        !.powerUps = <<[NewPowerUp(Px(200), Px(300), "giant")
                           EXCEPT !.startTime = StartNow - 4600],
                       [NewPowerUp(Px(230), Px(300), "giant")
                           EXCEPT !.startTime = StartNow - 4100]>>,
        !.player = [InitPlayer EXCEPT
                       !.radius = Mul(Mul(BaseRadius, 3, 2), 3, 2)],
        !.ai = [InitAi EXCEPT !.vx = -AiSpeedU]]

\* As WallGoal, with the AI at the wall above the ball, which it has kicked
\* in the frame before (at 12 px per tick along the AI-to-ball vector).
Scramble ==
    [WallGoal EXCEPT
        !.ball = [InitBall EXCEPT !.x = Px(13), !.y = Px(268),
                                  !.vx = -Px(3) - 6, !.vy = Px(12) - 8],
        !.ai = [InitAi EXCEPT !.x = Px(20) + 6, !.y = Px(243),
                              !.vx = -Scale, !.vy = AiSpeedU - Quarter]]

Scenes == {Kickoff, Approach, Charged, GiantContact, WallShot, WallGoal,
           WallRun, DoubleGiant, Scramble}

RECURSIVE LastStart(_, _, _)
LastStart(pus, type, i) ==
    IF i > Len(pus) THEN NoStart
    ELSE IF pus[i].type = type /\ pus[i].startTime # NoStart
         THEN Max(pus[i].startTime, LastStart(pus, type, i + 1))
         ELSE LastStart(pus, type, i + 1)

\* The last application of each power-up type a scene has seen.
LastApplied(pus, type) == LastStart(pus, type, 1)

Init ==
    \E s \in Scenes :
        /\ score = s.score
        /\ timeLeft = s.timeLeft
        /\ gameOver = FALSE
        /\ powerUps = s.powerUps
        /\ kickPower = s.kickPower
        /\ isCharging = s.isCharging
        /\ isPaused = s.isPaused
        /\ player = s.player
        /\ ai = s.ai
        /\ ball = s.ball
        /\ keys = s.keys
        /\ now = StartNow
        /\ rafPending = TRUE
        /\ timer = [live |-> TRUE, due |-> StartNow + TimerMs]
        /\ sig = NoSig
        /\ run = [ms |-> 0, start |-> s.timeLeft]
        /\ applied = [speed |-> LastApplied(s.powerUps, "speed"),
                      giant |-> LastApplied(s.powerUps, "giant")]
        /\ hold = "none"
        /\ used = 0
        /\ stale = NoStale
        /\ reg = [listeners |-> 1, frames |-> 1, timers |-> 1,
                  mounted |-> TRUE]
        /\ idle = [ms |-> 0, picks |-> {}]

\* ------------------------------------------------------------------ actions

AtRest(o) == o.vx = 0 /\ o.vy = 0
Touching == checkCollision(player, player.radius, ball, BallR)

\* A paused frame that still integrates the ball.
PausedTickMovesBall ==
    /\ isPaused
    /\ rafPending' = TRUE
    /\ ball' = MoveBall(ball)
    /\ sig' = [NoSig EXCEPT !.op = "tick"]
    /\ run' = RunAfter(FrameMs, isPaused, gameOver, timeLeft)
    /\ stale' = NoStale
    /\ reg' = RequestFrame(FrameRuns(reg))
    /\ idle' = IdleAfter(FrameMs)
    /\ UNCHANGED <<score, timeLeft, gameOver, powerUps, kickPower, isCharging,
                   isPaused, player, ai, keys, timer, applied, hold, used>>

\* Lines 361-366: a frame while paused only requests the next frame.
PausedTick ==
    /\ isPaused
    /\ rafPending' = TRUE
    /\ sig' = [NoSig EXCEPT !.op = "tick"]
    /\ run' = RunAfter(FrameMs, isPaused, gameOver, timeLeft)
    /\ stale' = NoStale
    /\ reg' = RequestFrame(FrameRuns(reg))
    /\ idle' = IdleAfter(FrameMs)
    /\ UNCHANGED <<score, timeLeft, gameOver, powerUps, kickPower, isCharging,
                   isPaused, player, ai, ball, keys, timer, applied, hold, used>>

\* Lines 368-577: a frame of the running match, and the commit of its updates.
\* c is what the closure of the callback captured: its kickPower, its powerUps
\* array, and how many power-ups have been appended to the state since
\* (c.fresh, 0 unless the frame overtook a commit).  The power-ups the closure
\* iterates are objects shared with the state.
\* setPowerUps(prev => prev.filter(...)) of line 343 always yields a new array,
\* so the effect is torn down and run again after every such frame: line 582
\* requests the next frame and line 584 starts a new interval.
SimTickWith(c, spot, type, spawn) ==
    LET t  == now + FrameMs
        kp == ChargeKick(isCharging, c.kickPower, kickPower)
        p1 == MovePlayer(player, keys)
        a1 == MoveAI(ai, ball)
        b1 == MoveBall(ball)
        b2 == ReflectY(ReflectX(b1))
        hitP == checkCollision(p1, p1.radius, b2, BallR)
        b3 == PlayerBall(p1, b2, keys, c.kickPower)
        hitA == checkCollision(a1, AiR, b3, BallR)
        b4 == AiBall(a1, b3)
        side == GoalSide(b4)
        seen == Len(powerUps) - c.fresh
        pk0 == Pickup(p1, SubSeq(powerUps, 1, seen), 1, t)
        pk == [pk0 EXCEPT !.powerUps =
                   pk0.powerUps \o SubSeq(powerUps, seen + 1, Len(powerUps))]
        ex == updatePowerUps(pk.player, pk.powerUps, 1, t)
        got(ty) == \E i \in 1..Len(powerUps) :
                      /\ powerUps[i].type = ty
                      /\ powerUps[i].startTime = NoStart
                      /\ pk.powerUps[i].startTime = t
        fresh == IF spawn
                 THEN <<NewPowerUp(Px(spot[1]), Px(spot[2]), type)>> ELSE <<>>
        requested == IF gameOver THEN FrameRuns(reg)
                     ELSE RequestFrame(FrameRuns(reg))
    IN  /\ ~isPaused
        /\ spawn => CanSpawn(c.powerUps)
        /\ kickPower' = kp
        /\ player' = ex.player
        /\ ai' = a1
        /\ ball' = GoalBall(b4)
        /\ score' = GoalScore(score, side)
        /\ powerUps' = ex.powerUps \o fresh
        /\ reg' = Rerun(TRUE, requested)
        /\ rafPending' = (reg'.frames > 0)
        /\ timer' = Rearm(TRUE, t, timer)
        /\ sig' = [op |-> "tick", simulated |-> TRUE,
                   wallX |-> HitsWallX(b1), wallY |-> HitsWallY(b1),
                   exitX |-> IF b1.x < 0 THEN "left"
                             ELSE IF b1.x > W THEN "right" ELSE "none",
                   pKick |-> hitP /\ keys.space,
                   kickV |-> IF hitP /\ keys.space THEN <<b3.vx, b3.vy>>
                             ELSE <<0, 0>>,
                   dribble |-> hitP /\ ~keys.space,
                   aiKick |-> hitA,
                   aiV |-> IF hitA THEN <<b4.vx, b4.vy>> ELSE <<0, 0>>,
                   goal |-> side,
                   picked |-> Cardinality({i \in 1..Len(powerUps) :
                                 pk.powerUps[i].startTime # powerUps[i].startTime}),
                   kickSound |-> (hitP /\ keys.space) \/ hitA,
                   before |-> <<>>, stale |-> c.on]
        /\ run' = RunAfter(FrameMs, isPaused, gameOver, timeLeft)
        /\ applied' = [speed |-> IF got("speed") THEN t ELSE applied.speed,
                       giant |-> IF got("giant") THEN t ELSE applied.giant]
        /\ hold' = IF hold = "released" THEN "launched"
                   ELSE IF hold = "launched" THEN "none" ELSE hold
        /\ stale' = IF c.on \/ gameOver THEN NoStale
                    ELSE [on |-> TRUE, kickPower |-> kickPower,
                          powerUps |-> powerUps,
                          fresh |-> IF spawn THEN 1 ELSE 0]
        /\ idle' = IF \E ty \in Types : got(ty)
                   THEN [idle EXCEPT !.picks = @ \cup {<<t, idle.ms>>}]
                   ELSE idle
        /\ UNCHANGED <<timeLeft, gameOver, isCharging, isPaused, keys>>

\* A frame whose closure is the committed state.
SimTick(spot, type, spawn) ==
    /\ spawn => used < MaxInputs
    /\ used' = IF spawn THEN used + 1 ELSE used
    /\ SimTickWith([on |-> FALSE, kickPower |-> kickPower,
                    powerUps |-> powerUps, fresh |-> 0], spot, type, spawn)

\* The frame requested at line 576 runs before the updates of the frame that
\* requested it are committed: it reads the kickPower and the powerUps array
\* of that frame's closure.  One frame at most overtakes a commit.
StaleTick(spot, type, spawn) ==
    /\ stale.on
    /\ used < MaxInputs
    /\ used' = used + 1
    /\ SimTickWith(stale, spot, type, spawn)

\* requestAnimationFrame(updateGame): the frame callback, one frame later.  A
\* timer that is due runs before the frame.
Tick ==
    /\ rafPending
    /\ now + FrameMs <= MaxNow
    /\ timer.live => now + FrameMs < timer.due
    /\ now' = now + FrameMs
    /\ \/ PausedTick
       \/ SimTick(<<0, 0>>, "speed", FALSE)
       \/ \E spot \in SpawnSpots, type \in Types : SimTick(spot, type, TRUE)
       \/ StaleTick(<<0, 0>>, "speed", FALSE)
       \/ \E spot \in SpawnSpots, type \in Types : StaleTick(spot, type, TRUE)

\* Lines 584-595: the interval callback, at the instant it is due.
TimerFire ==
    LET u == TimerUpdate(timeLeft)
        left2 == IF isPaused THEN timeLeft ELSE u.timeLeft
        over2 == IF isPaused THEN gameOver ELSE (gameOver \/ u.over)
        cleared == ~isPaused /\ u.over
    IN  /\ timer.live
        /\ timer.due <= MaxNow
        /\ now' = timer.due
        /\ timeLeft' = left2
        /\ gameOver' = over2
        /\ timer' = Rearm(over2 # gameOver, timer.due,
                          [live |-> ~cleared, due |-> timer.due + TimerMs])
        /\ sig' = [NoSig EXCEPT !.op = "timer"]
        /\ run' = RunAfter(timer.due - now, isPaused, over2, left2)
        /\ reg' = Rerun(over2 # gameOver,
                        IF cleared THEN ClearTimer(reg) ELSE reg)
        /\ stale' = NoStale
        /\ idle' = IdleAfter(timer.due - now)
        /\ UNCHANGED <<score, powerUps, kickPower, isCharging, isPaused, player,
                       ai, ball, keys, rafPending, applied, hold, used>>

\* The flag of gameStateRef.current.keys that key k sets (lines 243-266).
KeyField(k) ==
    IF k = "ArrowUp" THEN "up"
    ELSE IF k = "ArrowDown" THEN "down"
    ELSE IF k = "ArrowLeft" THEN "left"
    ELSE IF k = "ArrowRight" THEN "right"
    ELSE IF k = " " THEN "space"
    ELSE "shift"

SetKey(k, v) == [keys EXCEPT ![KeyField(k)] = v]

\* Lines 243-267: handleKeyDown for a game key.  The auto-repeated keydown of
\* a held key changes nothing (line 259 guards setIsCharging) unless it turns
\* the player round; it is left to stuttering.
KeyDown(k) ==
    LET charging2 == IF k = " " /\ ~keys.space THEN TRUE ELSE isCharging
        p2 == IF k = "ArrowLeft" THEN [player EXCEPT !.direction = -1]
              ELSE IF k = "ArrowRight" THEN [player EXCEPT !.direction = 1]
              ELSE player
    IN  /\ used < MaxInputs
        /\ reg.listeners > 0
        /\ ~keys[KeyField(k)] \/ p2 # player
        /\ keys' = SetKey(k, TRUE)
        /\ player' = p2
        /\ isCharging' = charging2
        /\ timer' = Rearm(charging2 # isCharging, now, timer)
        /\ sig' = [NoSig EXCEPT !.op = "keydown"]
        /\ hold' = IF k = " "
                   THEN IF ~keys.space /\ kickPower = 0 /\ AtRest(player)
                           /\ AtRest(ball) /\ Touching /\ ~isPaused
                        THEN "holding" ELSE hold
                   ELSE "none"
        /\ used' = used + 1
        /\ reg' = Rerun(charging2 # isCharging, reg)
        /\ stale' = NoStale
        /\ UNCHANGED <<score, timeLeft, gameOver, powerUps, kickPower, isPaused,
                       ai, ball, now, rafPending, run, applied, idle>>

\* Lines 270-295: handleKeyUp, of a key that is down.
KeyUp(k) ==
    LET charging2 == IF k = " " THEN FALSE ELSE isCharging
    IN  /\ used < MaxInputs
        /\ reg.listeners > 0
        /\ keys[KeyField(k)]
        /\ keys' = SetKey(k, FALSE)
        /\ isCharging' = charging2
        /\ timer' = Rearm(charging2 # isCharging, now, timer)
        /\ sig' = [NoSig EXCEPT !.op = "keyup",
                                !.kickSound = (k = " " /\ keys.space)]
        /\ hold' = IF k = " " /\ hold = "holding"
                   THEN IF kickPower = MaxKick /\ Touching
                        THEN "released" ELSE "none"
                   ELSE hold
        /\ used' = used + 1
        /\ reg' = Rerun(charging2 # isCharging, reg)
        /\ stale' = NoStale
        /\ UNCHANGED <<score, timeLeft, gameOver, powerUps, kickPower, isPaused,
                       player, ai, ball, now, rafPending, run, applied,
                       idle>>

\* Lines 238-241 (Escape) and 647 (the Start/Pause button).
TogglePause ==
    /\ used < MaxInputs
    /\ reg.mounted
    /\ isPaused' = ~isPaused
    /\ timer' = Rearm(TRUE, now, timer)
    /\ sig' = [NoSig EXCEPT !.op = "pause"]
    /\ run' = [ms |-> 0, start |-> timeLeft]
    /\ used' = used + 1
    /\ reg' = Rerun(TRUE, reg)
    /\ stale' = NoStale
    /\ UNCHANGED <<score, timeLeft, gameOver, powerUps, kickPower, isCharging,
                   player, ai, ball, keys, now, rafPending, applied, hold,
                   idle>>

\* resetGame with the ball's velocity forgotten.
ResetBallKeepsVelocity(b) ==
    [b EXCEPT !.x = W \div 2, !.y = H \div 2, !.spin = 0, !.rotation = 0]

\* Lines 199-216: the bodies after resetGame.
ResetPlayer(p) == [p EXCEPT !.x = W \div 4, !.y = H \div 2, !.vx = 0, !.vy = 0,
                            !.direction = 1]
ResetAi(a) == [a EXCEPT !.x = (W \div 4) * 3, !.y = H \div 2, !.vx = 0,
                        !.vy = 0, !.direction = -1]
ResetBall(b) == [b EXCEPT !.x = W \div 2, !.y = H \div 2, !.vx = 0, !.vy = 0,
                          !.spin = 0, !.rotation = 0]

\* Lines 189-219: resetGame (the Reset button, line 654).  setPowerUps([])
\* is a new array, so the effect runs again.
Reset ==
    /\ used < MaxInputs
    /\ reg.mounted
    /\ score' = [player |-> 0, ai |-> 0]
    /\ timeLeft' = MatchSeconds
    /\ gameOver' = FALSE
    /\ powerUps' = <<>>
    /\ kickPower' = 0
    /\ isCharging' = FALSE
    /\ player' = ResetPlayer(player)
    /\ ai' = ResetAi(ai)
    /\ ball' = ResetBall(ball)
    /\ isPaused' = TRUE
    /\ rafPending' = TRUE
    /\ timer' = Rearm(TRUE, now, timer)
    /\ sig' = [NoSig EXCEPT !.op = "reset",
                            !.before = <<score, timeLeft, gameOver, isPaused>>]
    /\ run' = [ms |-> 0, start |-> MatchSeconds]
    /\ hold' = "none"
    /\ used' = used + 1
    /\ reg' = Rerun(TRUE, reg)
    /\ stale' = NoStale
    /\ UNCHANGED <<keys, now, applied, idle>>

\* The component is unmounted: React runs the cleanup of lines 597-602 and
\* the buttons are gone.
Unmount ==
    /\ used < MaxInputs
    /\ reg.mounted
    /\ reg' = [Cleanup(reg) EXCEPT !.mounted = FALSE]
    /\ rafPending' = (reg'.frames > 0)
    /\ timer' = [timer EXCEPT !.live = reg'.timers > 0]
    /\ sig' = [NoSig EXCEPT !.op = "unmount"]
    /\ stale' = NoStale
    /\ used' = used + 1
    /\ UNCHANGED <<score, timeLeft, gameOver, powerUps, kickPower, isCharging,
                   isPaused, player, ai, ball, keys, now, run, applied, hold,
                   idle>>

Next ==
    \/ Tick
    \/ TimerFire
    \/ \E k \in KeyNames : KeyDown(k)
    \/ \E k \in KeyNames : KeyUp(k)
    \/ TogglePause
    \/ Reset
    \/ Unmount

Spec == Init /\ [][Next]_vars

\* ------------------------------------------------------------------- claims

SimulatedTick == sig.op = "tick" /\ sig.simulated
Speed2(v) == Sq(v[1]) + Sq(v[2])
\* What two roundings to a whole unit can take from a magnitude.
Slack == Scale \div 8

\* C1: while the match runs (not paused, not over), time remaining has gone
\* down by one for every full second the match has been running, whatever
\* ticks ran in between.
C1_TimerKeepsPace ==
    (~isPaused /\ ~gameOver) => timeLeft = run.start - (run.ms \div TimerMs)

\* C2: game-over is terminal: as long as game-over stays true, no step
\* changes the score, the bodies or the power-up set.
C2_GameOverIsTerminal ==
    [][(gameOver /\ gameOver') => world' = world]_vars

\* C3: right after a reset the score is (0,0), time remaining 180, game-over
\* false, the power-up set empty, kick power 0, the player at (200,300), the
\* AI at (600,300), the ball at (400,300), all velocities zero, paused true.
C3_ResetRestoresKickoff ==
    sig.op = "reset" =>
        /\ score = [player |-> 0, ai |-> 0]
        /\ timeLeft = 180
        /\ ~gameOver
        /\ powerUps = <<>>
        /\ kickPower = 0
        /\ player.x = Px(200) /\ player.y = Px(300) /\ AtRest(player)
        /\ ai.x = Px(600) /\ ai.y = Px(300) /\ AtRest(ai)
        /\ ball.x = Px(400) /\ ball.y = Px(300) /\ AtRest(ball)
        /\ isPaused

\* C3 witness: a reset of a match that was over, unpaused, with a goal scored.
C3_ResetAfterGameOver ==
    /\ sig.op = "reset"
    /\ sig.before = <<[player |-> 1, ai |-> 0], 0, TRUE, FALSE>>

\* C4: after every simulated tick, a power-up type whose last application
\* is at least 5000 ms old has left the player's attribute at its base value
\* and no applied power-up that old is in the set.
C4_EffectReverted ==
    SimulatedTick =>
        /\ (applied.speed # NoStart /\ now - applied.speed >= POWER_UP_DURATION)
              => player.maxSpeed = BaseMaxSpeed
        /\ (applied.giant # NoStart /\ now - applied.giant >= POWER_UP_DURATION)
              => player.radius = BaseRadius
        /\ \A i \in 1..Len(powerUps) : ~Expired(powerUps[i], now)

\* C5: a tick that moves the ball past x < 0 (or x > width) increments the
\* AI's (the player's) score by exactly 1, leaves the other score alone and
\* puts the ball at rest on the centre spot.
C5_GoalOnCrossing ==
    [][(sig'.op = "tick" /\ sig'.exitX # "none") =>
          /\ sig'.exitX = "left" =>
                score' = [score EXCEPT !.ai = score.ai + 1]
          /\ sig'.exitX = "right" =>
                score' = [score EXCEPT !.player = score.player + 1]
          /\ ball'.x = W \div 2 /\ ball'.y = H \div 2 /\ AtRest(ball')]_vars

\* C6: no tick both reflects the ball off the left/right wall and scores a
\* goal.
C6_ReflectOrGoal ==
    ~(SimulatedTick /\ sig.wallX /\ sig.goal # "none")

\* C7: the velocity a player kick gives the ball has magnitude at least 10
\* and at most 20.
C7_KickInRange ==
    (SimulatedTick /\ sig.pKick) =>
        /\ Speed2(sig.kickV) >= Sq(Px(MinKick) - Slack)
        /\ Speed2(sig.kickV) <= Sq(MaxKick)

\* C8: during a hold that began at rest in contact with a resting ball the
\* player does not strike the ball; when the button is released at charge 20,
\* still touching, the next tick sends the ball off at magnitude 20 along the
\* player-to-ball vector.
C8_HoldThenRelease ==
    /\ (hold = "holding" /\ SimulatedTick) => ~sig.pKick
    /\ hold = "launched" =>
          LET dx == ball.x - player.x
              dy == ball.y - player.y
          IN  /\ Speed2(<<ball.vx, ball.vy>>) >= Sq(MaxKick - Slack)
              /\ Speed2(<<ball.vx, ball.vy>>) <= Sq(MaxKick)
              /\ Abs(ball.vx * dy - ball.vy * dx) <= Slack * Dist(dx, dy)
              /\ ball.vx * dx + ball.vy * dy > 0

\* C9: a simulated tick with the button held and charging adds 0.5 to the
\* kick power, up to 20; the kick power never exceeds 20; a new press of the
\* button finds the kick power at 0.
C9_ChargeStartsAtZero ==
    [][/\ (sig'.op = "tick" /\ sig'.simulated /\ keys.space /\ isCharging)
            => kickPower' = Min(kickPower + ChargeRate, MaxKick)
       /\ kickPower' <= MaxKick
       /\ (~keys.space /\ keys'.space) => kickPower' = 0]_vars

\* C10: time remaining is within 0..180 and game-over is true exactly when
\* time remaining is 0.
C10_TimeAndGameOver ==
    /\ timeLeft \in 0..MatchSeconds
    /\ gameOver <=> (timeLeft = 0)

\* C10 witness: the timer has just taken time remaining to 0.
C10_TimerEndsMatch ==
    sig.op = "timer" /\ timeLeft = 0 /\ gameOver

\* C11: a tick that runs while paused leaves the score, time remaining, kick
\* power, the power-up set and the bodies unchanged and requests the next
\* frame; a timer callback that runs while paused leaves time remaining
\* unchanged; the first tick after un-pausing finds its frame request pending
\* and simulates.
C11_PausedTickIsIdle ==
    [][/\ (isPaused /\ sig'.op = "tick") =>
             /\ UNCHANGED <<score, timeLeft, kickPower, powerUps, player, ai,
                            ball>>
             /\ ~sig'.simulated
             /\ rafPending'
       /\ (isPaused /\ sig'.op = "timer") => timeLeft' = timeLeft
       /\ (sig'.op = "pause" /\ ~isPaused') => rafPending'
       /\ (sig.op = "pause" /\ ~isPaused /\ sig'.op = "tick") =>
             sig'.simulated]_vars

\* C11 witness: a tick has run while the match is paused with the ball in
\* motion.
C11_PausedWithBallMoving ==
    sig.op = "tick" /\ ~sig.simulated /\ isPaused /\ ~AtRest(ball)

\* The pending power-ups: active, not yet picked up.
Pending(pus) ==
    Cardinality({i \in 1..Len(pus) : pus[i].active /\ pus[i].startTime = NoStart})

\* C12: after every step at most 2 power-ups are pending, and the power-up
\* set only grows in a step that starts with fewer than 2 power-ups in it.
C12_AtMostTwoPending ==
    [][/\ Pending(powerUps') <= 2
       /\ Len(powerUps') > Len(powerUps) => Len(powerUps) < 2]_vars

\* C13: after every step at most one frame request, one interval and one
\* pair of key listeners are registered, a frame or timer callback can run
\* only if its registration is counted, an unmount leaves nothing registered,
\* and no step is taken once the component is unmounted.
C13_TeardownCancelsAll ==
    [][/\ reg.mounted
       /\ reg'.frames <= 1 /\ reg'.timers <= 1 /\ reg'.listeners <= 1
       /\ rafPending' <=> (reg'.frames = 1)
       /\ timer'.live <=> (reg'.timers = 1)
       /\ ~reg'.mounted =>
             reg'.frames = 0 /\ reg'.timers = 0 /\ reg'.listeners = 0]_vars

\* C13 witness: a running match, with a frame requested and the timer live,
\* has been unmounted.
C13_UnmountedWhileRunning ==
    /\ sig.op = "unmount" /\ ~isPaused /\ ~gameOver
    /\ ~rafPending /\ ~timer.live /\ reg.listeners = 0

\* C14: in every state the player's centre is at least its current radius
\* away from each edge of the field, and so is the AI's.
C14_BodiesInField ==
    /\ player.radius <= player.x /\ player.x <= W - player.radius
    /\ player.radius <= player.y /\ player.y <= H - player.radius
    /\ AiR <= ai.x /\ ai.x <= W - AiR
    /\ AiR <= ai.y /\ ai.y <= H - AiR

\* C15: in every state the player's speed is at most the player's current
\* maxSpeed.
C15_SpeedWithinMax ==
    Speed2(<<player.vx, player.vy>>) <= Sq(player.maxSpeed + Slack)

\* C16: a simulated tick that starts with the ball in motion and in which
\* the ball overlaps neither the player nor the AI ends with the ball
\* strictly slower.
C16_FrictionSlowsBall ==
    [][(/\ sig'.op = "tick" /\ sig'.simulated
        /\ ~AtRest(ball)
        /\ ~sig'.pKick /\ ~sig'.dribble /\ ~sig'.aiKick) =>
          Speed2(<<ball'.vx, ball'.vy>>) < Speed2(<<ball.vx, ball.vy>>)]_vars

\* C16 witness: such a tick, with a reflection off a side wall, has left the
\* ball moving.
C16_SlowerAfterBounce ==
    /\ SimulatedTick /\ sig.wallX
    /\ ~sig.pKick /\ ~sig.dribble /\ ~sig.aiKick
    /\ ~AtRest(ball)

\* An applied power-up of the type is in the set.
Applied(pus, type) ==
    \E i \in 1..Len(pus) : pus[i].type = type /\ pus[i].startTime # NoStart

\* An applied power-up of the type in the set has run its duration at time t.
Expiring(pus, type, t) ==
    \E i \in 1..Len(pus) : pus[i].type = type /\ Expired(pus[i], t)

\* C17: a simulated tick in which an applied speed (giant) power-up expires
\* leaves maxSpeed (radius) at exactly its base value 7.5 (20), whether or
\* not another power-up of the type is still applied.
C17_ExpiryResetsToBase ==
    [][(sig'.op = "tick" /\ sig'.simulated) =>
          /\ Expiring(powerUps, "speed", now') =>
                player'.maxSpeed = BaseMaxSpeed
          /\ Expiring(powerUps, "giant", now') =>
                player'.radius = BaseRadius]_vars

\* C17 witness: the first of two stacked giant power-ups has expired: the
\* radius is 20 while the second is still applied.
C17_BaseWhileSecondApplied ==
    /\ SimulatedTick
    /\ player.radius = BaseRadius
    /\ Applied(powerUps, "giant")

\* C18: a simulated tick in which the AI overlaps the ball ends with the
\* ball's velocity of magnitude 12 along the AI-to-ball vector.
C18_AiKickStands ==
    (SimulatedTick /\ sig.aiKick) =>
        /\ Speed2(<<ball.vx, ball.vy>>) >= Sq(Px(AiKick) - Slack)
        /\ Speed2(<<ball.vx, ball.vy>>) <= Sq(Px(AiKick) + Slack)
        /\ Abs(ball.vx * (ball.y - ai.y) - ball.vy * (ball.x - ai.x))
              <= 2 * Slack * Dist(ball.x - ai.x, ball.y - ai.y)
        /\ ball.vx * (ball.x - ai.x) + ball.vy * (ball.y - ai.y) > 0

\* C18 amended: a simulated tick in which the AI overlaps the ball and no goal
\* is scored ends with the ball's velocity of magnitude 12 along the
\* AI-to-ball vector (along the positive x axis when the two centres
\* coincide), whatever the player did to the ball in that tick; when a goal is
\* scored in that tick, the ball ends at rest on the centre spot.
C18_AiKickStandsUnlessGoal ==
    (SimulatedTick /\ sig.aiKick) =>
        LET dx == ball.x - ai.x
            dy == ball.y - ai.y
        IN  IF sig.goal # "none"
            THEN ball.x = W \div 2 /\ ball.y = H \div 2 /\ AtRest(ball)
            ELSE /\ Speed2(<<ball.vx, ball.vy>>) >= Sq(Px(AiKick) - Slack)
                 /\ Speed2(<<ball.vx, ball.vy>>) <= Sq(Px(AiKick) + Slack)
                 /\ IF dx = 0 /\ dy = 0
                    THEN ball.vx > 0 /\ ball.vy = 0
                    ELSE /\ Abs(ball.vx * dy - ball.vy * dx)
                               <= 2 * Slack * Dist(dx, dy)
                         /\ ball.vx * dx + ball.vy * dy > 0

\* C18 witness: the AI has kicked the ball in a tick in which the player
\* dribbled or kicked it, and no goal was scored.
C18_AiOverridesPlayer ==
    /\ SimulatedTick /\ sig.aiKick /\ sig.goal = "none"
    /\ sig.pKick \/ sig.dribble

\* C19: a simulated tick scores a goal only if in that tick the player
\* overlapped the ball with the kick button not held.
C19_GoalOnlyByDribble ==
    (SimulatedTick /\ sig.goal # "none") => sig.dribble

\* C19 witness: a tick has scored for the AI after a dribble push-out.
C19_DribbledIntoGoal ==
    SimulatedTick /\ sig.goal = "ai" /\ sig.dribble /\ score.ai = 2

\* C20: the charging flag equals the kick-hold input flag.
C20_ChargingIffHeld ==
    isCharging <=> keys.space

\* The paused time at the instant t of a pickup (0 for a pickup that precedes
\* the first state).
IdleAt(t) ==
    IF \E pick \in idle.picks : pick[1] = t
    THEN (CHOOSE pick \in idle.picks : pick[1] = t)[2]
    ELSE 0

\* The ms the match has run unpaused between the pickup of pu and time t,
\* given the paused time ms at t.
PlayedSince(pu, t, ms) == (t - pu.startTime) - (ms - IdleAt(pu.startTime))

\* C21: a simulated tick removes an applied power-up only if the match has
\* run unpaused for at least the power-up's duration since its pickup.
C21_ExpiryCountsPlayOnly ==
    [][(sig'.op = "tick" /\ sig'.simulated) =>
          \A i \in 1..Len(powerUps) :
              Expired(powerUps[i], now') =>
                  PlayedSince(powerUps[i], now', idle'.ms)
                      >= powerUps[i].duration]_vars

====
